---- MODULE Spec2Model ----
(***************************************************************************)
(* A model of stderrlog (src/src/lib.rs): the StdErrLog configuration      *)
(* builder, its module allow-list, the level filter, log()/flush() on the  *)
(* per-thread line writer, and init() against the log crate's globals.     *)
(*                                                                         *)
(* Strings are sequences of one-character strings; they are ordered as     *)
(* Rust orders str: lexicographically by byte value.                       *)
(***************************************************************************)
EXTENDS Integers, Sequences, FiniteSets, TLC

VARIABLES
    verbosity,      \* StdErrLog.verbosity : LevelFilter
    quiet,          \* StdErrLog.quiet
    timestamp,      \* StdErrLog.timestamp
    color_choice,   \* StdErrLog.color_choice
    modules,        \* StdErrLog.modules : Vec<String>
    logger,         \* the log crate's active-logger slot
    max_level,      \* the log crate's global maximum level
    registered,     \* history: the set of strings passed to module()/modules()
    tuned,          \* history: verbosity() or quiet() has been called
    pre,            \* history: the state the last call started from
    call,           \* history: the last call, its arguments and its result
    pc,             \* per thread: position inside log()
    rec,            \* per thread: the level of the record being logged
    buf,            \* per thread: contents of the thread's LineWriter buffer
    lines,          \* per thread: number of log() calls started
    dest            \* the shared stderr: the sequence of chunks that reached it

vars == <<verbosity, quiet, timestamp, color_choice, modules, logger, max_level,
          registered, tuned, pre, call, pc, rec, buf, lines, dest>>

(***************************************************************************)
(* Bounds of the model.                                                    *)
(***************************************************************************)
MaxVerbosity == 5
MaxBatch == 2
MaxLines == 1

(***************************************************************************)
(* Strings.                                                                *)
(***************************************************************************)
Byte(c) ==
    CASE c = ":" -> 58
      [] c = "a" -> 97
      [] c = "b" -> 98
      [] c = "c" -> 99
      [] c = "d" -> 100
      [] c = "e" -> 101
      [] c = "i" -> 105
      [] c = "n" -> 110
      [] c = "o" -> 111
      [] c = "p" -> 112
      [] c = "t" -> 116
      [] c = "u" -> 117
      [] c = "x" -> 120
      [] c = "z" -> 122

SEP == <<":", ":">>

RECURSIVE cmp_from(_, _, _)
cmp_from(s, t, i) ==
    IF i > Len(s) /\ i > Len(t) THEN "Equal"
    ELSE IF i > Len(s) THEN "Less"
    ELSE IF i > Len(t) THEN "Greater"
    ELSE IF Byte(s[i]) < Byte(t[i]) THEN "Less"
    ELSE IF Byte(s[i]) > Byte(t[i]) THEN "Greater"
    ELSE cmp_from(s, t, i + 1)

\* str::cmp: lexicographic by bytes, a proper prefix is Less.
cmp(s, t) == cmp_from(s, t, 1)

\* str::starts_with
starts_with(s, prefix) ==
    /\ Len(prefix) <= Len(s)
    /\ SubSeq(s, 1, Len(prefix)) = prefix

Range(f) == {f[i] : i \in DOMAIN f}

\* The module paths the model registers and queries.
P_a == <<"a">>
P_a_b == P_a \o SEP \o <<"b">>
P_a_bx == P_a \o SEP \o <<"b", "x">>
P_a_b_d == P_a_b \o SEP \o <<"d">>
P_a_c == P_a \o SEP \o <<"c">>
P_z == <<"z">>
P_app_net == <<"a", "p", "p">> \o SEP \o <<"n", "e", "t">>
P_app_net_conn == P_app_net \o SEP \o <<"c", "o", "n", "n">>
P_app_ui == <<"a", "p", "p">> \o SEP \o <<"u", "i">>

FilterPaths == {P_a, P_a_b, P_a_bx, P_a_b_d, P_a_c, P_z}
\* The paths modules() draws its batches from: a parent, a child, a sibling.
BatchPaths == {P_a, P_a_b, P_a_c}

(***************************************************************************)
(* The module registry.                                                    *)
(***************************************************************************)
RECURSIVE bsearch_loop(_, _, _, _)
bsearch_loop(v, x, left, right) ==
    IF left >= right THEN [found |-> FALSE, idx |-> left]
    ELSE LET mid == left + ((right - left) \div 2)
             o == cmp(v[mid + 1], x)
         IN  IF o = "Equal" THEN [found |-> TRUE, idx |-> mid]
             ELSE IF o = "Less" THEN bsearch_loop(v, x, mid + 1, right)
             ELSE bsearch_loop(v, x, left, mid)

\* slice::binary_search(_by) with the str ordering: Ok(i) is [found |-> TRUE,
\* idx |-> i], Err(i) is [found |-> FALSE, idx |-> i]; indices count from 0.
binary_search(v, x) == bsearch_loop(v, x, 0, Len(v))

\* Vec::insert(i, x), i counted from 0.
insert(v, i, x) == SubSeq(v, 1, i) \o <<x>> \o SubSeq(v, i + 1, Len(v))

\* module() without the sorted-position search: the string is pushed at the end.
module_push(mods, to_insert) == Append(mods, to_insert)

\* StdErrLog::module on the modules field.
module(mods, to_insert) ==
    LET r == binary_search(mods, to_insert)
    IN  IF r.found THEN mods ELSE insert(mods, r.idx, to_insert)

RECURSIVE modules_from(_, _, _)
modules_from(mods, ms, i) ==
    IF i > Len(ms) THEN mods
    ELSE modules_from(module(mods, ms[i]), ms, i + 1)

\* StdErrLog::modules on the modules field: module() for each, in order.
modules_each(mods, ms) == modules_from(mods, ms, 1)

\* StdErrLog::includes_module
includes_module(mods, module_path) ==
    IF mods = <<>> THEN TRUE
    ELSE LET r == binary_search(mods, module_path)
         IN  IF r.found THEN TRUE
             ELSE IF r.idx = 0 THEN FALSE
             ELSE starts_with(module_path, mods[r.idx])

(***************************************************************************)
(* Levels and the level filter.                                            *)
(***************************************************************************)
\* log::LevelFilter and log::Level, with the log crate's numbering.
LevelFilter == [Off |-> 0, Error |-> 1, Warn |-> 2, Info |-> 3, Debug |-> 4, Trace |-> 5]
Level == [Error |-> 1, Warn |-> 2, Info |-> 3, Debug |-> 4, Trace |-> 5]
Levels == {Level.Error, Level.Warn, Level.Info, Level.Debug, Level.Trace}

Timestamps == {"Off", "Second", "Microsecond", "Nanosecond"}
ColorChoices == {"Always", "AlwaysAnsi", "Auto", "Never"}

\* The verbosity count taken as the level filter's own number, capped.
verbosity_level_raw(v) == IF v > 5 THEN 5 ELSE v

\* The match in StdErrLog::verbosity.
verbosity_level(v) ==
    CASE v = 0 -> LevelFilter.Error
      [] v = 1 -> LevelFilter.Warn
      [] v = 2 -> LevelFilter.Info
      [] v = 3 -> LevelFilter.Debug
      [] OTHER -> LevelFilter.Trace

\* log_level_filter() that forgets the quiet flag.
log_level_filter_loud(q, v) == v

\* StdErrLog::log_level_filter
log_level_filter(q, v) == IF q THEN LevelFilter.Off ELSE v

\* <StdErrLog as Log>::enabled
enabled(q, v, level) == level <= log_level_filter(q, v)

\* should_log with a record that has no module path sent through the filter
\* as the empty path.
should_log_filtered(mods, mpath) ==
    includes_module(mods, IF mpath = <<>> THEN <<>> ELSE mpath[1])

\* The should_log decision of log(): mpath is <<>> for a record without a
\* module path and <<p>> for one with module path p.
should_log(mods, mpath) ==
    IF mpath = <<>> THEN TRUE ELSE includes_module(mods, mpath[1])

\* The colour log() picks for a level.
color_of(level) ==
    CASE level = Level.Error -> "Red"
      [] level = Level.Warn -> "Magenta"
      [] level = Level.Info -> "Yellow"
      [] level = Level.Debug -> "Cyan"
      [] level = Level.Trace -> "Blue"

\* The timestamp prefix log() writes into the line buffer: nothing, or the
\* formatted time (named by its format) followed by " - ".
timestamp_prefix(ts) ==
    CASE ts = "Second" -> <<"%Y-%m-%dT%H:%M:%S%:z", " - ">>
      [] ts = "Microsecond" -> <<"%Y-%m-%dT%H:%M:%S%.6f%:z", " - ">>
      [] ts = "Nanosecond" -> <<"%Y-%m-%dT%H:%M:%S%.9f%:z", " - ">>
      [] ts = "Off" -> <<>>

level_name(level) ==
    CASE level = Level.Error -> "ERROR"
      [] level = Level.Warn -> "WARN"
      [] level = Level.Info -> "INFO"
      [] level = Level.Debug -> "DEBUG"
      [] level = Level.Trace -> "TRACE"

\* writeln!(writer, "{} - {}", record.level(), record.args())
line_of(level) == <<level_name(level), " - ", "args", "\n">>

\* Whether the StandardStream writes colour escapes: decided by the colour
\* choice and, for Auto, by the environment (ansi).
colors_on(choice, ansi) ==
    CASE choice = "Always" -> TRUE
      [] choice = "AlwaysAnsi" -> TRUE
      [] choice = "Auto" -> ansi
      [] choice = "Never" -> FALSE

(***************************************************************************)
(* The state.                                                              *)
(***************************************************************************)
Threads == {1, 2}

\* self, as the fields of the StdErrLog being configured.
Self ==
    [verbosity |-> verbosity, quiet |-> quiet, timestamp |-> timestamp,
     color_choice |-> color_choice, modules |-> modules]

Pre == [self |-> Self, logger |-> logger, max_level |-> max_level]

Called(op, paths, n, fault, ok, out) ==
    [op |-> op, paths |-> paths, n |-> n, fault |-> fault, ok |-> ok, out |-> out]

threadVars == <<pc, rec, buf, lines, dest>>
globalVars == <<logger, max_level>>

\* StdErrLog::new, with the log crate's globals as the process starts.
New ==
    /\ verbosity = LevelFilter.Error
    /\ quiet = FALSE
    /\ timestamp = "Off"
    /\ color_choice = "Auto"
    /\ modules = <<>>
    /\ logger = <<>>
    /\ max_level = LevelFilter.Off
    /\ registered = {}
    /\ tuned = FALSE
    /\ pre = Pre
    /\ call = Called("new", <<>>, 0, "none", TRUE, <<>>)
    /\ pc = [t \in Threads |-> "idle"]
    /\ rec = [t \in Threads |-> Level.Error]
    /\ buf = [t \in Threads |-> <<>>]
    /\ lines = [t \in Threads |-> 0]
    /\ dest = <<>>

(***************************************************************************)
(* The builder.                                                            *)
(***************************************************************************)
Verbosity(v) ==
    /\ verbosity' = verbosity_level(v)
    /\ tuned' = TRUE
    /\ pre' = Pre
    /\ call' = Called("verbosity", <<>>, v, "none", TRUE, <<>>)
    /\ UNCHANGED <<quiet, timestamp, color_choice, modules, registered>>
    /\ UNCHANGED <<globalVars, threadVars>>

Quiet(q) ==
    /\ quiet' = q
    /\ tuned' = TRUE
    /\ pre' = Pre
    /\ call' = Called("quiet", <<>>, 0, "none", q, <<>>)
    /\ UNCHANGED <<verbosity, timestamp, color_choice, modules, registered>>
    /\ UNCHANGED <<globalVars, threadVars>>

Timestamp(ts) ==
    /\ timestamp' = ts
    /\ pre' = Pre
    /\ call' = Called("timestamp", <<>>, 0, "none", TRUE, <<>>)
    /\ UNCHANGED <<verbosity, quiet, color_choice, modules, registered, tuned>>
    /\ UNCHANGED <<globalVars, threadVars>>

Color(choice) ==
    /\ color_choice' = choice
    /\ pre' = Pre
    /\ call' = Called("color", <<>>, 0, "none", TRUE, <<>>)
    /\ UNCHANGED <<verbosity, quiet, timestamp, modules, registered, tuned>>
    /\ UNCHANGED <<globalVars, threadVars>>

Module(m) ==
    /\ modules' = module(modules, m)
    /\ registered' = registered \cup {m}
    /\ pre' = Pre
    /\ call' = Called("module", <<m>>, 0, "none", TRUE, <<>>)
    /\ UNCHANGED <<verbosity, quiet, timestamp, color_choice, tuned>>
    /\ UNCHANGED <<globalVars, threadVars>>

Modules(ms) ==
    /\ modules' = modules_each(modules, ms)
    /\ registered' = registered \cup Range(ms)
    /\ pre' = Pre
    /\ call' = Called("modules", ms, 0, "none", TRUE, <<>>)
    /\ UNCHANGED <<verbosity, quiet, timestamp, color_choice, tuned>>
    /\ UNCHANGED <<globalVars, threadVars>>

\* A query of the module filter on self.
IncludesModule(p) ==
    /\ pre' = Pre
    /\ call' = Called("includes_module", <<p>>, 0, "none",
                      includes_module(modules, p), <<>>)
    /\ UNCHANGED <<verbosity, quiet, timestamp, color_choice, modules>>
    /\ UNCHANGED <<registered, tuned, globalVars, threadVars>>

\* Sequences over S of length 0..n.
SeqUpTo(S, n) == UNION {[1..k -> S] : k \in 0..n}

(***************************************************************************)
(* The module registry and filter on their own.                            *)
(***************************************************************************)
NextFilter ==
    \/ \E m \in FilterPaths : Module(m)
    \/ \E ms \in SeqUpTo(BatchPaths, MaxBatch) : Modules(ms)
    \/ \E p \in FilterPaths : IncludesModule(p)

SpecFilter == New /\ [][NextFilter]_vars

(***************************************************************************)
(* Properties of the module registry and filter.                           *)
(***************************************************************************)
IsQuery == call.op = "includes_module"

\* A full scan of the registry for a string prefix of p.
SomePrefix(mods, p) == \E i \in DOMAIN mods : starts_with(p, mods[i])

\* An entry that is p itself or a path prefix of p: the entry followed by "::".
SomePathPrefix(mods, p) ==
    \E i \in DOMAIN mods : mods[i] = p \/ starts_with(p, mods[i] \o SEP)

\* C1: on every registry built by module()/modules(), includes_module(P)
\* answers true exactly when the registry is empty or some registered entry is
\* a string prefix of P: the binary-search check agrees with a full scan.
C1_BinarySearchIsFullScan ==
    IsQuery =>
        call.ok = (modules = <<>> \/ SomePrefix(modules, call.paths[1]))

\* C2: with a non-empty registry, a path is allowed only if some registered
\* entry equals it or is a path prefix of it (the entry followed by "::").
C2_OnlyPathPrefixAllowed ==
    (IsQuery /\ modules # <<>> /\ call.ok) =>
        SomePathPrefix(modules, call.paths[1])

IsStrictlySorted(mods) ==
    \A i \in 1..(Len(mods) - 1) : cmp(mods[i], mods[i + 1]) = "Less"

\* C10: after any sequence of module()/modules() calls the registry is
\* strictly increasing in the str order, holds exactly the strings registered
\* so far, and registering a string already present leaves it unchanged.
C10_RegistrySortedUnique ==
    /\ IsStrictlySorted(modules)
    /\ Range(modules) = registered
    /\ (call.op \in {"module", "modules"} /\ Range(call.paths) \subseteq Range(pre.self.modules))
           => modules = pre.self.modules

\* A three-entry registry on which module() was called with a string it held.
C10_Witness ==
    /\ call.op = "module"
    /\ call.paths[1] \in Range(pre.self.modules)
    /\ Len(modules) >= 3

(***************************************************************************)
(* enabled(), log() and flush() on self, each as one step.                 *)
(***************************************************************************)
\* The stream operation that fails during a call, if any.
Faults == {"none", "set_color", "write", "reset", "flush"}

\* One operation on the StandardStream that reached stderr.
Chunk(op, data) == [op |-> op, data |-> data]

\* <StdErrLog as Log>::log for a record of the given level and module path,
\* on a stream that writes colour escapes iff on and on which the operation
\* named by fault fails.  ok: log() returned (FALSE: it panicked); out: the
\* chunks that reached stderr, in order.
log(self, level, mpath, on, fault) ==
    IF ~enabled(self.quiet, self.verbosity, level) THEN [ok |-> TRUE, out |-> <<>>]
    ELSE IF ~should_log(self.modules, mpath) THEN [ok |-> TRUE, out |-> <<>>]
    ELSE
        LET set == IF on THEN <<Chunk("set_color", <<color_of(level)>>)>> ELSE <<>>
            content == timestamp_prefix(self.timestamp) \o line_of(level)
            \* let _ = writeln!(..): the LineWriter flushes at the newline
            written == IF fault = "write" THEN <<>> ELSE <<Chunk("write", content)>>
            reset == IF on THEN <<Chunk("reset", <<>>)>> ELSE <<>>
        IN  IF on /\ fault = "set_color"
            THEN [ok |-> FALSE, out |-> <<>>]              \* .expect("failed to set color")
            ELSE IF on /\ fault = "reset"
            THEN [ok |-> FALSE, out |-> set \o written]    \* .expect("failed to reset the color")
            ELSE [ok |-> TRUE, out |-> set \o written \o reset]

Enabled(level) ==
    /\ pre' = Pre
    /\ call' = Called("enabled", <<>>, level, "none",
                      enabled(quiet, verbosity, level), <<>>)
    /\ UNCHANGED <<verbosity, quiet, timestamp, color_choice, modules>>
    /\ UNCHANGED <<registered, tuned, globalVars, threadVars>>

Log(level, mpath, ansi, fault) ==
    /\ LET r == log(Self, level, mpath, colors_on(color_choice, ansi), fault)
       IN  call' = Called("log", mpath, level, fault, r.ok, r.out)
    /\ pre' = Pre
    /\ UNCHANGED <<verbosity, quiet, timestamp, color_choice, modules>>
    /\ UNCHANGED <<registered, tuned, globalVars, threadVars>>

\* <StdErrLog as Log>::flush: writer.flush().ok()
Flush(fault) ==
    /\ pre' = Pre
    /\ call' = Called("flush", <<>>, 0, fault, TRUE, <<>>)
    /\ UNCHANGED <<verbosity, quiet, timestamp, color_choice, modules>>
    /\ UNCHANGED <<registered, tuned, globalVars, threadVars>>

NoPath == <<>>
RecordPaths == {NoPath, <<P_app_net_conn>>, <<P_app_ui>>}

NextLog ==
    \/ \E v \in 0..MaxVerbosity : Verbosity(v)
    \/ \E q \in BOOLEAN : Quiet(q)
    \/ \E ts \in Timestamps : Timestamp(ts)
    \/ \E c \in {"Always", "Never"} : Color(c)
    \/ Module(P_app_net)
    \/ \E l \in Levels, mp \in RecordPaths, ansi \in BOOLEAN,
          f \in {"none", "set_color", "write", "reset"} : Log(l, mp, ansi, f)
    \/ \E f \in {"none", "flush"} : Flush(f)

SpecLog == New /\ [][NextLog]_vars

NextBuilder ==
    \/ \E v \in 0..MaxVerbosity : Verbosity(v)
    \/ \E q \in BOOLEAN : Quiet(q)
    \/ \E ts \in Timestamps : Timestamp(ts)
    \/ \E c \in ColorChoices : Color(c)
    \/ Module(P_app_net)
    \/ \E ms \in SeqUpTo({P_app_net, P_app_ui}, MaxBatch) : Modules(ms)
    \/ \E l \in Levels : Enabled(l)
    \/ \E l \in Levels, mp \in {NoPath, <<P_app_net_conn>>} : Log(l, mp, TRUE, "none")

SpecBuilder == New /\ [][NextBuilder]_vars

(***************************************************************************)
(* init() and the log crate's globals.                                     *)
(***************************************************************************)
\* Clone for StdErrLog: the fields, with a fresh (empty) writer.
clone(self) == self

\* log::set_boxed_logger on the logger slot: the slot is written once.
set_boxed_logger(slot, boxed) ==
    IF slot = <<>> THEN [ok |-> TRUE, slot |-> <<boxed>>]
    ELSE [ok |-> FALSE, slot |-> slot]

\* init() without the set_max_level call.
Init_no_max_level ==
    /\ LET r == set_boxed_logger(logger, clone(Self))
       IN  /\ logger' = r.slot
           /\ call' = Called("init", <<>>, 0, "none", r.ok, <<>>)
    /\ pre' = Pre
    /\ UNCHANGED <<verbosity, quiet, timestamp, color_choice, modules>>
    /\ UNCHANGED <<max_level, registered, tuned, threadVars>>

\* StdErrLog::init
Init ==
    /\ max_level' = log_level_filter(quiet, verbosity)
    /\ LET r == set_boxed_logger(logger, clone(Self))
       IN  /\ logger' = r.slot
           /\ call' = Called("init", <<>>, 0, "none", r.ok, <<>>)
    /\ pre' = Pre
    /\ UNCHANGED <<verbosity, quiet, timestamp, color_choice, modules>>
    /\ UNCHANGED <<registered, tuned, threadVars>>

NextInit ==
    \/ \E v \in 0..MaxVerbosity : Verbosity(v)
    \/ \E q \in BOOLEAN : Quiet(q)
    \/ Module(P_app_net)
    \/ Init

SpecInit == New /\ [][NextInit]_vars

(***************************************************************************)
(* log() on the installed logger, from two threads, one stream operation   *)
(* at a time.  Each thread has its own LineWriter over its own handle to   *)
(* stderr: set_color and reset go through get_mut() straight to the        *)
(* handle, the content goes through the line buffer, which is written out  *)
(* when the newline arrives.                                               *)
(***************************************************************************)
ThreadChunk(t, op, data) == [t |-> t, op |-> op, data |-> data]

\* log() up to the decision whether to write.
LogBegin(t, level, mpath) ==
    /\ logger # <<>>
    /\ pc[t] = "idle"
    /\ lines[t] < MaxLines
    /\ lines' = [lines EXCEPT ![t] = @ + 1]
    /\ IF /\ enabled(logger[1].quiet, logger[1].verbosity, level)
          /\ should_log(logger[1].modules, mpath)
       THEN /\ pc' = [pc EXCEPT ![t] = "set_color"]
            /\ rec' = [rec EXCEPT ![t] = level]
       ELSE UNCHANGED <<pc, rec>>
    /\ UNCHANGED <<verbosity, quiet, timestamp, color_choice, modules>>
    /\ UNCHANGED <<globalVars, registered, tuned, pre, call, buf, dest>>

\* writer.get_mut().set_color(..)
SetColor(t, ansi) ==
    /\ pc[t] = "set_color"
    /\ dest' = IF colors_on(logger[1].color_choice, ansi)
               THEN Append(dest, ThreadChunk(t, "set_color", <<color_of(rec[t])>>))
               ELSE dest
    /\ pc' = [pc EXCEPT ![t] = "timestamp"]
    /\ UNCHANGED <<verbosity, quiet, timestamp, color_choice, modules>>
    /\ UNCHANGED <<globalVars, registered, tuned, pre, call, rec, buf, lines>>

\* write!(writer, "{} - ", ..): no newline, so it stays in the line buffer.
WriteTimestamp(t) ==
    /\ pc[t] = "timestamp"
    /\ buf' = [buf EXCEPT ![t] = @ \o timestamp_prefix(logger[1].timestamp)]
    /\ pc' = [pc EXCEPT ![t] = "writeln"]
    /\ UNCHANGED <<verbosity, quiet, timestamp, color_choice, modules>>
    /\ UNCHANGED <<globalVars, registered, tuned, pre, call, rec, lines, dest>>

\* writeln!(writer, ..): the buffer, now ending in a newline, is written out.
WriteLine(t) ==
    /\ pc[t] = "writeln"
    /\ dest' = Append(dest, ThreadChunk(t, "write", buf[t] \o line_of(rec[t])))
    /\ buf' = [buf EXCEPT ![t] = <<>>]
    /\ pc' = [pc EXCEPT ![t] = "reset"]
    /\ UNCHANGED <<verbosity, quiet, timestamp, color_choice, modules>>
    /\ UNCHANGED <<globalVars, registered, tuned, pre, call, rec, lines>>

\* writer.get_mut().reset()
Reset(t, ansi) ==
    /\ pc[t] = "reset"
    /\ dest' = IF colors_on(logger[1].color_choice, ansi)
               THEN Append(dest, ThreadChunk(t, "reset", <<>>))
               ELSE dest
    /\ pc' = [pc EXCEPT ![t] = "idle"]
    /\ UNCHANGED <<verbosity, quiet, timestamp, color_choice, modules>>
    /\ UNCHANGED <<globalVars, registered, tuned, pre, call, rec, buf, lines>>

\* The logger is configured and installed, then the threads log.
NextThreads ==
    \/ logger = <<>> /\ \E v \in 0..MaxVerbosity : Verbosity(v)
    \/ logger = <<>> /\ \E ts \in {"Off", "Second"} : Timestamp(ts)
    \/ logger = <<>> /\ \E c \in {"Always", "Never"} : Color(c)
    \/ logger = <<>> /\ Init
    \/ \E t \in Threads, l \in Levels : LogBegin(t, l, NoPath)
    \/ \E t \in Threads : SetColor(t, TRUE)
    \/ \E t \in Threads : WriteTimestamp(t)
    \/ \E t \in Threads : WriteLine(t)
    \/ \E t \in Threads : Reset(t, TRUE)

SpecThreads == New /\ [][NextThreads]_vars

(***************************************************************************)
(* Properties of the level filter, log() and init().                       *)
(***************************************************************************)
\* The number of whole lines among the chunks that reached stderr.
LineCount(out) ==
    Cardinality({i \in DOMAIN out :
        out[i].op = "write" /\ out[i].data[Len(out[i].data)] = "\n"})

\* The record of the last log() call passes the level threshold and, if it
\* has a module path, the module filter, of the logger it was given to.
Accepted ==
    /\ call.n <= (IF pre.self.quiet THEN LevelFilter.Off ELSE pre.self.verbosity)
    /\ call.paths = <<>> \/ includes_module(pre.self.modules, call.paths[1])

\* The configuration of the end-to-end example: verbosity 2, modules
\* ["app::net"], quiet false.
ExampleLogger ==
    /\ pre.self.verbosity = LevelFilter.Info
    /\ pre.self.modules = <<P_app_net>>
    /\ ~pre.self.quiet

\* C4: a failing stream operation never makes log() or flush() panic: every
\* call returns normally.
C4_StreamFailureNotPropagated ==
    call.op \in {"log", "flush"} => call.ok

\* C6: log() writes exactly one line if the record's level is within the
\* effective threshold and it has no module path or the filter allows its
\* path (the stream working), and writes nothing at all otherwise; so for
\* verbosity 2, modules ["app::net"]: Info on app::net::conn and Info with no
\* path are written, Debug on app::net::conn and Info on app::ui are not.
C6_LineIffAccepted ==
    call.op = "log" =>
        /\ ~Accepted => call.out = <<>>
        /\ (Accepted /\ call.fault = "none") => LineCount(call.out) = 1
        /\ LineCount(call.out) <= 1
        /\ (ExampleLogger /\ call.fault = "none") =>
              /\ (call.n = Level.Info /\ call.paths = <<P_app_net_conn>>)
                    => LineCount(call.out) = 1
              /\ (call.n = Level.Debug /\ call.paths = <<P_app_net_conn>>)
                    => call.out = <<>>
              /\ (call.n = Level.Info /\ call.paths = <<P_app_ui>>)
                    => call.out = <<>>
              /\ (call.n = Level.Info /\ call.paths = NoPath)
                    => LineCount(call.out) = 1

\* The example logger wrote the line of an Info record on app::net::conn.
C6_Witness ==
    /\ call.op = "log"
    /\ ExampleLogger
    /\ call.n = Level.Info
    /\ call.paths = <<P_app_net_conn>>
    /\ LineCount(call.out) = 1

\* C7: while quiet is set the effective threshold is Off and enabled() and
\* log() reject every record, whatever the verbosity; with quiet not set the
\* threshold is the configured verbosity, which quiet() never changes.
C7_QuietRejectsAll ==
    /\ quiet => log_level_filter(quiet, verbosity) = LevelFilter.Off
    /\ ~quiet => log_level_filter(quiet, verbosity) = verbosity
    /\ call.op = "enabled" =>
          call.ok = (~pre.self.quiet /\ call.n <= pre.self.verbosity)
    /\ (call.op = "log" /\ pre.self.quiet) => call.out = <<>>
    /\ call.op = "quiet" => (quiet = call.ok /\ verbosity = pre.self.verbosity)

\* A quiet logger of verbosity Trace with a module registered rejected an
\* Error record.
C7_Witness ==
    /\ call.op = "enabled"
    /\ quiet
    /\ verbosity = LevelFilter.Trace
    /\ modules # <<>>
    /\ call.n = Level.Error
    /\ ~call.ok

\* C9: verbosity(v) sets the threshold to Error, Warn, Info, Debug for
\* v = 0, 1, 2, 3 and to Trace for every v >= 4, and changes no other field.
C9_VerbosityMapping ==
    call.op = "verbosity" =>
        /\ call.n = 0 => verbosity = LevelFilter.Error
        /\ call.n = 1 => verbosity = LevelFilter.Warn
        /\ call.n = 2 => verbosity = LevelFilter.Info
        /\ call.n = 3 => verbosity = LevelFilter.Debug
        /\ call.n >= 4 => verbosity = LevelFilter.Trace
        /\ quiet = pre.self.quiet
        /\ timestamp = pre.self.timestamp
        /\ color_choice = pre.self.color_choice
        /\ modules = pre.self.modules

\* verbosity(v) with v beyond 4 on a logger whose other fields are all set.
C9_Witness ==
    /\ call.op = "verbosity"
    /\ call.n > 4
    /\ verbosity = LevelFilter.Trace
    /\ pre.self.verbosity = LevelFilter.Warn
    /\ quiet
    /\ timestamp = "Nanosecond"
    /\ color_choice = "Never"
    /\ modules = <<P_app_net, P_app_ui>>

\* C3: init() with a logger already installed returns the setup error, leaves
\* the installed logger as it is and leaves the global maximum level at the
\* threshold of the installed logger.
C3_FailedInitChangesNothing ==
    (call.op = "init" /\ pre.logger # <<>>) =>
        /\ ~call.ok
        /\ logger = pre.logger
        /\ max_level = (IF logger[1].quiet THEN LevelFilter.Off
                        ELSE logger[1].verbosity)

\* C8: after a successful init() the global maximum level is the effective
\* threshold of the configuration: Off if quiet, else its verbosity; Error if
\* verbosity() and quiet() were never called.
C8_MaxLevelAtInstall ==
    (call.op = "init" /\ call.ok) =>
        /\ max_level = (IF pre.self.quiet THEN LevelFilter.Off
                        ELSE pre.self.verbosity)
        /\ ~tuned => max_level = LevelFilter.Error
        /\ logger = <<pre.self>>

\* new().module(..).init() succeeded, as in tests::test_default_level.
C8_Witness ==
    /\ call.op = "init"
    /\ call.ok
    /\ ~tuned
    /\ modules # <<>>
    /\ max_level = LevelFilter.Error

(***************************************************************************)
(* Properties of concurrent log() calls.                                   *)
(***************************************************************************)
\* Thread t has set its colour and not yet reset it within the first n chunks.
ColorOpen(t, n) ==
    \E i \in 1..n :
        /\ dest[i].t = t
        /\ dest[i].op = "set_color"
        /\ \A j \in (i + 1)..n : ~(dest[j].t = t /\ dest[j].op = "reset")

\* C5: on stderr no chunk of one thread lies between the set-color and the
\* reset-color of another thread's line.
C5_TriadNeverSplit ==
    \A k \in DOMAIN dest :
        \A t \in Threads : (t # dest[k].t) => ~ColorOpen(t, k - 1)
====
